---- MODULE Spec2Model ----
(***************************************************************************)
(* Verification-code lifecycle and e-mail dispatch of                      *)
(* "sistema de emails para api sites e apps/implementacao_python.py":      *)
(*   - utils/email.py  : EmailService (SMTP wrapper, log-only mode)        *)
(*   - routes/auth.py  : the Flask routes and their two code stores        *)
(*   - app.py          : the /health route                                 *)
(*   - the FastAPI variant with its single store `codes`                   *)
(* The Flask application and the FastAPI application are two programs      *)
(* sharing the EmailService; Spec is the Flask one, SpecFast the FastAPI   *)
(* one.                                                                    *)
(***************************************************************************)
EXTENDS Integers, FiniteSets, Sequences, TLC

\* seconds a code stays valid: `time.time() + 900`
TTL == 900

\* the instants at which the clock is read: up to MaxSkew seconds into the
\* period in which a first code is issued and into the one in which it expires
MaxSkew == 1
Times == {p + j : p \in {0, TTL}, j \in 0..MaxSkew}

Emails == {"a@x.com"}

\* outcomes of random.randint(100000, 999999) rendered by str(): both ends
Codes == {"100000", "999999"}

\* a field absent from the JSON body (data.get gives None), or empty: falsy
None == ""

Passwords == {"novaSenha123"}

VARIABLES
    now,                 \* value time.time() returns
    log_only,            \* EmailService.log_only (EMAIL_LOG_ONLY)
    verification_codes,  \* routes/auth.py: email -> {code, expires_at}
    reset_codes,         \* routes/auth.py: email -> {code, expires_at}
    codes,               \* FastAPI variant: email -> code
    resp,                \* the HTTP response of the request handled by the step
    mail,                \* the EmailService call made by that request
    hist                 \* per store and email: what last happened to its code

vars == <<now, log_only, verification_codes, reset_codes, codes, resp, mail, hist>>

StoreNames == {"verification_codes", "reset_codes", "codes"}

----------------------------------------------------------------------------
\* dict operations

\* d[k] = v
Put(d, k, v) == [x \in DOMAIN d \cup {k} |-> IF x = k THEN v ELSE d[x]]

\* del d[k]
Del(d, k) == [x \in DOMAIN d \ {k} |-> d[x]]

EmptyDict == [x \in {} |-> None]

----------------------------------------------------------------------------
\* utils/email.py

\* the transport's behaviour during one call: TRUE = the SMTP step works;
\* a step after the first failing one is never made
Transports ==
    {n \in [connect : BOOLEAN, sendmail : BOOLEAN, quit : BOOLEAN] :
        /\ ~n.connect => ~n.sendmail
        /\ ~n.sendmail => ~n.quit}

\* What a call did and how it ended: ret is the value returned, raised tells
\* it ended in an exception; contacted: smtplib.SMTP() was called, connected:
\* it and ehlo() worked, transmitted: sendmail() worked, closed: quit() worked.

\* EmailService._create_connection: smtp is FALSE for None
create_connection(lo, net) ==
    IF lo
    THEN [raised |-> FALSE, smtp |-> FALSE, contacted |-> FALSE]
    ELSE IF net.connect
         THEN [raised |-> FALSE, smtp |-> TRUE, contacted |-> TRUE]
         ELSE [raised |-> TRUE, smtp |-> FALSE, contacted |-> TRUE]

\* _send_email without the log-only return: the SMTP path is always taken
send_email_skips_log_only(lo, net) ==
    LET c == create_connection(lo, net) IN
    IF c.raised \/ ~c.smtp
    THEN [ret |-> FALSE, raised |-> TRUE, contacted |-> c.contacted,
          connected |-> c.smtp, transmitted |-> FALSE, closed |-> FALSE]
    ELSE IF ~net.sendmail
    THEN [ret |-> FALSE, raised |-> TRUE, contacted |-> c.contacted,
          connected |-> TRUE, transmitted |-> FALSE, closed |-> FALSE]
    ELSE IF ~net.quit
    THEN [ret |-> FALSE, raised |-> TRUE, contacted |-> c.contacted,
          connected |-> TRUE, transmitted |-> TRUE, closed |-> FALSE]
    ELSE [ret |-> TRUE, raised |-> FALSE, contacted |-> c.contacted,
          connected |-> TRUE, transmitted |-> TRUE, closed |-> TRUE]

\* EmailService._send_email
send_email(lo, net) ==
    IF lo
    THEN [ret |-> TRUE, raised |-> FALSE, contacted |-> FALSE, connected |-> FALSE,
          transmitted |-> FALSE, closed |-> FALSE]
    ELSE LET c == create_connection(lo, net) IN
         IF c.raised \/ ~c.smtp
         THEN [ret |-> FALSE, raised |-> TRUE, contacted |-> c.contacted,
               connected |-> c.smtp, transmitted |-> FALSE, closed |-> FALSE]
         ELSE IF ~net.sendmail
         THEN [ret |-> FALSE, raised |-> TRUE, contacted |-> c.contacted,
               connected |-> TRUE, transmitted |-> FALSE, closed |-> FALSE]
         ELSE IF ~net.quit
         THEN [ret |-> FALSE, raised |-> TRUE, contacted |-> c.contacted,
               connected |-> TRUE, transmitted |-> TRUE, closed |-> FALSE]
         ELSE [ret |-> TRUE, raised |-> FALSE, contacted |-> c.contacted,
               connected |-> TRUE, transmitted |-> TRUE, closed |-> TRUE]

\* EmailService.send_verification_email
send_verification_email(lo, net, to, code) ==
    [call |-> "send_verification_email", to |-> to, code |-> code]
        @@ send_email(lo, net)

\* EmailService.send_password_reset_email
send_password_reset_email(lo, net, to, code) ==
    [call |-> "send_password_reset_email", to |-> to, code |-> code]
        @@ send_email(lo, net)

\* verify_connection with quit() outside the try block: its failure escapes
verify_connection_quit_uncaught(lo, net) ==
    IF lo
    THEN [call |-> "verify_connection", to |-> None, code |-> None,
          ret |-> TRUE, raised |-> FALSE, contacted |-> FALSE, connected |-> FALSE,
          transmitted |-> FALSE, closed |-> FALSE]
    ELSE LET c == create_connection(lo, net) IN
         IF c.raised
         THEN [call |-> "verify_connection", to |-> None, code |-> None,
               ret |-> FALSE, raised |-> FALSE, contacted |-> c.contacted,
               connected |-> FALSE, transmitted |-> FALSE, closed |-> FALSE]
         ELSE IF c.smtp /\ ~net.quit
         THEN [call |-> "verify_connection", to |-> None, code |-> None,
               ret |-> FALSE, raised |-> TRUE, contacted |-> c.contacted,
               connected |-> TRUE, transmitted |-> FALSE, closed |-> FALSE]
         ELSE [call |-> "verify_connection", to |-> None, code |-> None,
               ret |-> TRUE, raised |-> FALSE, contacted |-> c.contacted,
               connected |-> c.smtp, transmitted |-> FALSE, closed |-> c.smtp]

\* EmailService.verify_connection
verify_connection(lo, net) ==
    IF lo
    THEN [call |-> "verify_connection", to |-> None, code |-> None,
          ret |-> TRUE, raised |-> FALSE, contacted |-> FALSE, connected |-> FALSE,
          transmitted |-> FALSE, closed |-> FALSE]
    ELSE LET c == create_connection(lo, net) IN
         IF c.raised
         THEN [call |-> "verify_connection", to |-> None, code |-> None,
               ret |-> FALSE, raised |-> FALSE, contacted |-> c.contacted,
               connected |-> FALSE, transmitted |-> FALSE, closed |-> FALSE]
         ELSE IF c.smtp /\ ~net.quit
         THEN [call |-> "verify_connection", to |-> None, code |-> None,
               ret |-> FALSE, raised |-> FALSE, contacted |-> c.contacted,
               connected |-> TRUE, transmitted |-> FALSE, closed |-> FALSE]
         ELSE [call |-> "verify_connection", to |-> None, code |-> None,
               ret |-> TRUE, raised |-> FALSE, contacted |-> c.contacted,
               connected |-> c.smtp, transmitted |-> FALSE, closed |-> c.smtp]

\* a request that calls nothing of the EmailService
NoMail ==
    [call |-> "none", to |-> None, code |-> None,
     ret |-> FALSE, raised |-> FALSE, contacted |-> FALSE, connected |-> FALSE,
     transmitted |-> FALSE, closed |-> FALSE]

----------------------------------------------------------------------------
\* routes/auth.py (Flask)

\* request.get_json(): the fields a body may carry
Bodies == [email : Emails \cup {None}, code : Codes \cup {None},
           new_password : Passwords \cup {None}]

\* the bodies that differ in the fields a route reads
EmailBodies == {d \in Bodies : d.code = None /\ d.new_password = None}
CodeBodies == {d \in Bodies : d.new_password = None}

\* generate_code(): the values it may return
generate_code == Codes

\* register that keeps a pending entry instead of overwriting it
register_keeps_pending(data, t, code, lo, net, store) ==
    IF data.email = None
    THEN [store |-> store, status |-> 400, error |-> "MissingField", mail |-> NoMail]
    ELSE LET saved == IF data.email \in DOMAIN store THEN store
                      ELSE Put(store, data.email,
                               [code |-> code, expires_at |-> t + TTL])
             m == send_verification_email(lo, net, data.email, code)
         IN IF m.raised
            THEN [store |-> saved, status |-> 500, error |-> "DeliveryFailure", mail |-> m]
            ELSE [store |-> saved, status |-> 200, error |-> "OK", mail |-> m]

\* register(): store is verification_codes, t the value of time.time()
register(data, t, code, lo, net, store) ==
    IF data.email = None
    THEN [store |-> store, status |-> 400, error |-> "MissingField", mail |-> NoMail]
    ELSE LET saved == Put(store, data.email, [code |-> code, expires_at |-> t + TTL])
             m == send_verification_email(lo, net, data.email, code)
         IN IF m.raised
            THEN [store |-> saved, status |-> 500, error |-> "DeliveryFailure", mail |-> m]
            ELSE [store |-> saved, status |-> 200, error |-> "OK", mail |-> m]

\* verify_code without `del verification_codes[email]` after a match
verify_code_keeps_entry(data, t, store) ==
    IF data.email = None \/ data.code = None
    THEN [store |-> store, status |-> 400, error |-> "MissingField"]
    ELSE IF data.email \notin DOMAIN store
    THEN [store |-> store, status |-> 400, error |-> "CodeNotFound"]
    ELSE LET stored == store[data.email] IN
         IF t > stored.expires_at
         THEN [store |-> Del(store, data.email), status |-> 400, error |-> "CodeExpired"]
         ELSE IF stored.code # data.code
         THEN [store |-> store, status |-> 400, error |-> "CodeMismatch"]
         ELSE [store |-> store, status |-> 200, error |-> "OK"]

\* verify_code that drops the entry on a wrong candidate
verify_code_locks_out(data, t, store) ==
    IF data.email = None \/ data.code = None
    THEN [store |-> store, status |-> 400, error |-> "MissingField"]
    ELSE IF data.email \notin DOMAIN store
    THEN [store |-> store, status |-> 400, error |-> "CodeNotFound"]
    ELSE LET stored == store[data.email] IN
         IF t > stored.expires_at
         THEN [store |-> Del(store, data.email), status |-> 400, error |-> "CodeExpired"]
         ELSE IF stored.code # data.code
         THEN [store |-> Del(store, data.email), status |-> 400, error |-> "CodeMismatch"]
         ELSE [store |-> Del(store, data.email), status |-> 200, error |-> "OK"]

\* verify_code(): store is verification_codes
verify_code(data, t, store) ==
    IF data.email = None \/ data.code = None
    THEN [store |-> store, status |-> 400, error |-> "MissingField"]
    ELSE IF data.email \notin DOMAIN store
    THEN [store |-> store, status |-> 400, error |-> "CodeNotFound"]
    ELSE LET stored == store[data.email] IN
         IF t > stored.expires_at
         THEN [store |-> Del(store, data.email), status |-> 400, error |-> "CodeExpired"]
         ELSE IF stored.code # data.code
         THEN [store |-> store, status |-> 400, error |-> "CodeMismatch"]
         ELSE [store |-> Del(store, data.email), status |-> 200, error |-> "OK"]

\* forgot_password that saves the code only once the e-mail went out
forgot_password_saves_after_send(data, t, code, lo, net, store) ==
    IF data.email = None
    THEN [store |-> store, status |-> 400, error |-> "MissingField", mail |-> NoMail]
    ELSE LET saved == Put(store, data.email, [code |-> code, expires_at |-> t + TTL])
             m == send_password_reset_email(lo, net, data.email, code)
         IN IF m.raised
            THEN [store |-> store, status |-> 500, error |-> "DeliveryFailure", mail |-> m]
            ELSE [store |-> saved, status |-> 200, error |-> "OK", mail |-> m]

\* forgot_password(): store is reset_codes
forgot_password(data, t, code, lo, net, store) ==
    IF data.email = None
    THEN [store |-> store, status |-> 400, error |-> "MissingField", mail |-> NoMail]
    ELSE LET saved == Put(store, data.email, [code |-> code, expires_at |-> t + TTL])
             m == send_password_reset_email(lo, net, data.email, code)
         IN IF m.raised
            THEN [store |-> saved, status |-> 500, error |-> "DeliveryFailure", mail |-> m]
            ELSE [store |-> saved, status |-> 200, error |-> "OK", mail |-> m]

\* reset_password with `>=` in the expiry test
reset_password_expires_early(data, t, store) ==
    IF data.email = None \/ data.code = None \/ data.new_password = None
    THEN [store |-> store, status |-> 400, error |-> "MissingField"]
    ELSE IF data.email \notin DOMAIN store
    THEN [store |-> store, status |-> 400, error |-> "CodeNotFound"]
    ELSE LET stored == store[data.email] IN
         IF t >= stored.expires_at
         THEN [store |-> Del(store, data.email), status |-> 400, error |-> "CodeExpired"]
         ELSE IF stored.code # data.code
         THEN [store |-> store, status |-> 400, error |-> "CodeMismatch"]
         ELSE [store |-> Del(store, data.email), status |-> 200, error |-> "OK"]

\* reset_password that looks at new_password only after it consumed the code
reset_password_checks_late(data, t, store) ==
    IF data.email = None \/ data.code = None
    THEN [store |-> store, status |-> 400, error |-> "MissingField"]
    ELSE IF data.email \notin DOMAIN store
    THEN [store |-> store, status |-> 400, error |-> "CodeNotFound"]
    ELSE LET stored == store[data.email] IN
         IF t > stored.expires_at
         THEN [store |-> Del(store, data.email), status |-> 400, error |-> "CodeExpired"]
         ELSE IF stored.code # data.code
         THEN [store |-> store, status |-> 400, error |-> "CodeMismatch"]
         ELSE IF data.new_password = None
         THEN [store |-> Del(store, data.email), status |-> 400, error |-> "MissingField"]
         ELSE [store |-> Del(store, data.email), status |-> 200, error |-> "OK"]

\* reset_password(): store is reset_codes
reset_password(data, t, store) ==
    IF data.email = None \/ data.code = None \/ data.new_password = None
    THEN [store |-> store, status |-> 400, error |-> "MissingField"]
    ELSE IF data.email \notin DOMAIN store
    THEN [store |-> store, status |-> 400, error |-> "CodeNotFound"]
    ELSE LET stored == store[data.email] IN
         IF t > stored.expires_at
         THEN [store |-> Del(store, data.email), status |-> 400, error |-> "CodeExpired"]
         ELSE IF stored.code # data.code
         THEN [store |-> store, status |-> 400, error |-> "CodeMismatch"]
         ELSE [store |-> Del(store, data.email), status |-> 200, error |-> "OK"]

----------------------------------------------------------------------------
\* FastAPI variant

\* codes.get(k)
Get(d, k) == IF k \in DOMAIN d THEN d[k] ELSE None

\* register(req: RegisterRequest)
fastapi_register(req, code, lo, net, store) ==
    LET saved == Put(store, req.email, code)
        m == send_verification_email(lo, net, req.email, code)
    IN IF m.raised
       THEN [store |-> saved, status |-> 500, error |-> "DeliveryFailure", mail |-> m]
       ELSE [store |-> saved, status |-> 200, error |-> "OK", mail |-> m]

\* verify(req: VerifyRequest)
fastapi_verify(req, store) ==
    IF Get(store, req.email) # req.code
    THEN [store |-> store, status |-> 400, error |-> "CodeInvalid"]
    ELSE [store |-> Del(store, req.email), status |-> 200, error |-> "OK"]

\* forgot_password(req: RegisterRequest)
fastapi_forgot_password(req, code, lo, net, store) ==
    LET saved == Put(store, req.email, code)
        m == send_password_reset_email(lo, net, req.email, code)
    IN IF m.raised
       THEN [store |-> saved, status |-> 500, error |-> "DeliveryFailure", mail |-> m]
       ELSE [store |-> saved, status |-> 200, error |-> "OK", mail |-> m]

----------------------------------------------------------------------------
\* the observed response and the history of each store entry

Response(route, data, r) ==
    [route |-> route, email |-> data.email, code |-> data.code,
     new_password |-> data.new_password, status |-> r.status, error |-> r.error]

NoResponse ==
    [route |-> "none", email |-> None, code |-> None, new_password |-> None,
     status |-> 0, error |-> "none"]

\* hist[s][e]: event is what last happened to the code of email e in store s,
\* code the code generated last and by the route that generated it, at the
\* time it was generated and prev the code generated before it (both while the
\* last code is pending)
NoEvent == [event |-> "none", code |-> None, by |-> "none", at |-> 0, prev |-> None]

\* route generated code c for (store s, email e) at time t
Issued(s, e, c, t, route) ==
    [hist EXCEPT ![s][e] =
        [event |-> "issued", code |-> c, by |-> route, at |-> t,
         prev |-> hist[s][e].code]]

\* a verification of (s, e) ended with response r
Verified(s, e, r) ==
    IF r.status = 200
    THEN [hist EXCEPT ![s][e].event = "verified", ![s][e].at = 0,
                      ![s][e].prev = None]
    ELSE IF r.error = "CodeExpired"
    THEN [hist EXCEPT ![s][e].event = "expired", ![s][e].at = 0,
                      ![s][e].prev = None]
    ELSE hist

----------------------------------------------------------------------------
Init ==
    /\ now = 0
    /\ log_only \in BOOLEAN
    /\ verification_codes = EmptyDict
    /\ reset_codes = EmptyDict
    /\ codes = EmptyDict
    /\ resp = NoResponse
    /\ mail = NoMail
    /\ hist = [s \in StoreNames |-> [e \in Emails |-> NoEvent]]

\* time passes between two requests
Tick ==
    /\ \E t \in Times : t > now /\ now' = t
    /\ resp' = NoResponse
    /\ mail' = NoMail
    /\ UNCHANGED <<log_only, verification_codes, reset_codes, codes, hist>>

\* POST /api/auth/register
Register ==
    \E data \in EmailBodies, code \in generate_code, net \in Transports :
        LET r == register(data, now, code, log_only, net, verification_codes) IN
        /\ verification_codes' = r.store
        /\ resp' = Response("register", data, r)
        /\ mail' = r.mail
        /\ hist' = IF r.status = 400 THEN hist
                   ELSE Issued("verification_codes", data.email, code, now, "register")
        /\ UNCHANGED <<now, log_only, reset_codes, codes>>

\* POST /api/auth/verify-code
VerifyCode ==
    \E data \in CodeBodies :
        LET r == verify_code(data, now, verification_codes) IN
        /\ verification_codes' = r.store
        /\ resp' = Response("verify-code", data, r)
        /\ mail' = NoMail
        /\ hist' = IF data.email = None THEN hist
                   ELSE Verified("verification_codes", data.email, r)
        /\ UNCHANGED <<now, log_only, reset_codes, codes>>

\* POST /api/auth/forgot-password
ForgotPassword ==
    \E data \in EmailBodies, code \in generate_code, net \in Transports :
        LET r == forgot_password(data, now, code, log_only, net, reset_codes) IN
        /\ reset_codes' = r.store
        /\ resp' = Response("forgot-password", data, r)
        /\ mail' = r.mail
        /\ hist' = IF r.status = 400 THEN hist
                   ELSE Issued("reset_codes", data.email, code, now, "forgot-password")
        /\ UNCHANGED <<now, log_only, verification_codes, codes>>

\* POST /api/auth/reset-password
ResetPassword ==
    \E data \in Bodies :
        LET r == reset_password(data, now, reset_codes) IN
        /\ reset_codes' = r.store
        /\ resp' = Response("reset-password", data, r)
        /\ mail' = NoMail
        /\ hist' = IF data.email = None THEN hist
                   ELSE Verified("reset_codes", data.email, r)
        /\ UNCHANGED <<now, log_only, verification_codes, codes>>

\* GET /health
Health ==
    \E net \in Transports :
        LET m == verify_connection(log_only, net) IN
        /\ mail' = m
        /\ resp' = [NoResponse EXCEPT !.route = "health",
                        !.status = IF m.raised THEN 500 ELSE 200,
                        !.error = IF m.raised THEN "Exception" ELSE "OK"]
        /\ UNCHANGED <<now, log_only, verification_codes, reset_codes, codes, hist>>

\* the bodies the FastAPI models accept: every declared field present
RegisterRequest == {d \in EmailBodies : d.email # None}
VerifyRequest == {d \in CodeBodies : d.email # None /\ d.code # None}

\* FastAPI POST /api/auth/register
FastRegister ==
    \E req \in RegisterRequest, code \in generate_code, net \in Transports :
        LET r == fastapi_register(req, code, log_only, net, codes) IN
        /\ codes' = r.store
        /\ resp' = Response("fastapi-register", req, r)
        /\ mail' = r.mail
        /\ hist' = Issued("codes", req.email, code, now, "fastapi-register")
        /\ UNCHANGED <<now, log_only, verification_codes, reset_codes>>

\* FastAPI POST /api/auth/verify-code
FastVerify ==
    \E req \in VerifyRequest :
        LET r == fastapi_verify(req, codes) IN
        /\ codes' = r.store
        /\ resp' = Response("fastapi-verify-code", req, r)
        /\ mail' = NoMail
        /\ hist' = Verified("codes", req.email, r)
        /\ UNCHANGED <<now, log_only, verification_codes, reset_codes>>

\* FastAPI POST /api/auth/forgot-password
FastForgotPassword ==
    \E req \in RegisterRequest, code \in generate_code, net \in Transports :
        LET r == fastapi_forgot_password(req, code, log_only, net, codes) IN
        /\ codes' = r.store
        /\ resp' = Response("fastapi-forgot-password", req, r)
        /\ mail' = r.mail
        /\ hist' = Issued("codes", req.email, code, now, "fastapi-forgot-password")
        /\ UNCHANGED <<now, log_only, verification_codes, reset_codes>>

\* the Flask application
Next ==
    \/ Tick
    \/ Register
    \/ VerifyCode
    \/ ForgotPassword
    \/ ResetPassword
    \/ Health

Spec == Init /\ [][Next]_vars

\* the FastAPI application
NextFast ==
    \/ Tick
    \/ FastRegister
    \/ FastVerify
    \/ FastForgotPassword

SpecFast == Init /\ [][NextFast]_vars

----------------------------------------------------------------------------
\* vocabulary of the properties

IssueRoutes == {"register", "forgot-password"}
VerifyRoutes == {"verify-code", "reset-password"}

\* the store a route works on
StoreName(route) ==
    CASE route \in {"register", "verify-code"} -> "verification_codes"
      [] route \in {"forgot-password", "reset-password"} -> "reset_codes"
      [] OTHER -> "codes"

Store(name) ==
    CASE name = "verification_codes" -> verification_codes
      [] name = "reset_codes" -> reset_codes
      [] OTHER -> codes

\* the same store after the step
StoreAfter(name) ==
    CASE name = "verification_codes" -> verification_codes'
      [] name = "reset_codes" -> reset_codes'
      [] OTHER -> codes'

\* the route whose codes a verification route is meant to accept
IssuerOf(route) ==
    CASE route = "verify-code" -> "register"
      [] route = "reset-password" -> "forgot-password"
      [] OTHER -> "fastapi-register"

\* response r answers a request that carried every field its route requires
RequiredPresent(r) ==
    /\ r.email # None
    /\ r.route \in VerifyRoutes => r.code # None
    /\ r.route = "reset-password" => r.new_password # None

\* the history of the entry a response is about
HistOf(r) == hist[StoreName(r.route)][r.email]

\* the code generated last for the entry of r is pending and unexpired at t
Pending(r, t) == HistOf(r).event = "issued" /\ t <= HistOf(r).at + TTL

\* the step answers a complete verification request
VerifyStep == resp'.route \in VerifyRoutes /\ RequiredPresent(resp')

\* the step answers an issuing request that names an email
IssueStep == resp'.route \in IssueRoutes /\ RequiredPresent(resp')

\* what a complete verification of code c for the entry of r would answer at
\* time t, were the stores vc and rc
Answer(r, c, t, vc, rc) ==
    LET data == [email |-> r.email, code |-> c, new_password |-> "novaSenha123"] IN
    IF StoreName(r.route) = "verification_codes"
    THEN verify_code(data, t, vc)
    ELSE reset_password(data, t, rc)

----------------------------------------------------------------------------
\* C1 (single use): once a code is issued, a complete verification with that
\* code no later than issue time + TTL succeeds and deletes the entry; a
\* further verification with the same code, with no issue in between, is
\* answered CodeNotFound; a verification succeeds only on an entry issued
\* and not yet consumed, so at most one succeeds between two issues.
C1_SingleUse ==
    [][VerifyStep =>
        /\ (Pending(resp', now') /\ resp'.code = HistOf(resp').code)
              => /\ resp'.status = 200
                 /\ resp'.email \notin DOMAIN StoreAfter(StoreName(resp'.route))
        /\ (HistOf(resp').event = "verified" /\ resp'.code = HistOf(resp').code)
              => resp'.status = 400 /\ resp'.error = "CodeNotFound"
        /\ resp'.status = 200 => HistOf(resp').event = "issued"]_vars

\* the same code was presented again after its successful verification
C1_Witness ==
    /\ resp.route \in VerifyRoutes
    /\ resp.error = "CodeNotFound"
    /\ HistOf(resp).event = "verified"
    /\ resp.code = HistOf(resp).code

\* C2 as stated (overwrite, every pair of codes): while the newest code is
\* unexpired, a verification with the code of the issue before it is answered
\* CodeMismatch, and only the newest code succeeds.
C2_OverwriteEveryPair ==
    [][VerifyStep =>
        /\ (Pending(resp', now') /\ HistOf(resp').prev # None
               /\ resp'.code = HistOf(resp').prev)
              => resp'.error = "CodeMismatch"
        /\ resp'.status = 200 => resp'.code = HistOf(resp').code]_vars

\* C2 as amended: the same, for an earlier code that differs from the newest.
C2_Overwrite ==
    [][VerifyStep =>
        /\ (Pending(resp', now') /\ HistOf(resp').prev # None
               /\ resp'.code = HistOf(resp').prev
               /\ HistOf(resp').prev # HistOf(resp').code)
              => resp'.error = "CodeMismatch"
        /\ resp'.status = 200 => resp'.code = HistOf(resp').code]_vars

\* the code of the earlier issue was presented after a second issue
C2_Witness ==
    /\ resp.route \in VerifyRoutes
    /\ resp.error = "CodeMismatch"
    /\ HistOf(resp).event = "issued"
    /\ HistOf(resp).prev # None
    /\ resp.code = HistOf(resp).prev

\* C3 (expiry): a complete verification of a stored entry later than issue
\* time + TTL is answered CodeExpired whatever the candidate and deletes the
\* entry; the next one without a new issue is answered CodeNotFound; at
\* exactly issue time + TTL it is not expired.
C3_Expiry ==
    [][VerifyStep =>
        /\ (HistOf(resp').event = "issued" /\ now' > HistOf(resp').at + TTL)
              => /\ resp'.status = 400 /\ resp'.error = "CodeExpired"
                 /\ resp'.email \notin DOMAIN StoreAfter(StoreName(resp'.route))
        /\ HistOf(resp').event = "expired"
              => resp'.status = 400 /\ resp'.error = "CodeNotFound"
        /\ (HistOf(resp').event = "issued" /\ now' = HistOf(resp').at + TTL)
              => /\ resp'.error # "CodeExpired"
                 /\ resp'.code = HistOf(resp').code => resp'.status = 200]_vars

\* a verification followed the one that found the entry expired
C3_Witness ==
    /\ resp.route \in VerifyRoutes
    /\ resp.error = "CodeNotFound"
    /\ HistOf(resp).event = "expired"

\* C4 (wrong candidate): a complete verification with a wrong candidate on an
\* unexpired entry is answered CodeMismatch and changes no store; the correct
\* code presented after a wrong attempt, still in time, succeeds.
C4_WrongCandidate ==
    [][VerifyStep =>
        /\ (Pending(resp', now') /\ resp'.code # HistOf(resp').code)
              => /\ resp'.status = 400 /\ resp'.error = "CodeMismatch"
                 /\ UNCHANGED <<verification_codes, reset_codes>>
        /\ (resp.error = "CodeMismatch" /\ resp.route = resp'.route
               /\ resp.email = resp'.email
               /\ Pending(resp', now') /\ resp'.code = HistOf(resp').code)
              => resp'.status = 200]_vars

\* a wrong candidate was rejected and the entry is still there
C4_Witness ==
    /\ resp.route \in VerifyRoutes
    /\ resp.error = "CodeMismatch"
    /\ HistOf(resp).event = "issued"
    /\ resp.email \in DOMAIN Store(StoreName(resp.route))
    /\ Store(StoreName(resp.route))[resp.email].code = HistOf(resp).code

\* C5 (no code outlives its expiry): on every verification path, Flask
\* verify-code, Flask reset-password and FastAPI verify-code, a success is
\* answered only for a pending code no later than TTL after its issue.
C5_NoCodeOutlivesExpiry ==
    [][(resp'.route \in VerifyRoutes \cup {"fastapi-verify-code"}
          /\ resp'.status = 200)
        => Pending(resp', now')]_vars

\* C6 (one store per flow): in both implementations a verification route
\* accepts only a code issued by the issuing route of its own flow, an issue
\* overwrites only a pending code of its own flow, and a Flask route leaves
\* the store of the other flow unchanged.
C6_OneStorePerFlow ==
    [][/\ (resp'.route \in VerifyRoutes \cup {"fastapi-verify-code"}
             /\ resp'.status = 200)
            => HistOf(resp').by = IssuerOf(resp'.route)
       /\ (resp'.route \in IssueRoutes \cup {"fastapi-register", "fastapi-forgot-password"}
             /\ resp'.email # None /\ HistOf(resp').event = "issued")
            => HistOf(resp').by = resp'.route
       /\ resp'.route \in {"register", "verify-code"} => UNCHANGED reset_codes
       /\ resp'.route \in {"forgot-password", "reset-password"}
            => UNCHANGED verification_codes]_vars

\* C7 (log-only mode): send_verification_email and send_password_reset_email
\* return True without raising and without contacting the transport.
C7_LogOnly ==
    (log_only /\ mail.call \in {"send_verification_email", "send_password_reset_email"})
        => /\ mail.ret = TRUE
           /\ ~mail.raised
           /\ ~mail.contacted /\ ~mail.connected /\ ~mail.transmitted

\* an e-mail was requested in log-only mode
C7_Witness ==
    /\ log_only
    /\ mail.call = "send_password_reset_email"
    /\ mail.to \in Emails /\ mail.code \in Codes
    /\ resp.status = 200

\* C8 (verify_connection): /health gets a boolean and no exception: true in
\* log-only mode or when the transport connects and closes, false when
\* connecting or closing fails; the code stores are unchanged.
C8_VerifyConnection ==
    [][resp'.route = "health" =>
        /\ mail'.call = "verify_connection"
        /\ ~mail'.raised /\ resp'.status = 200
        /\ mail'.ret \in BOOLEAN
        /\ mail'.ret = (log_only \/ (mail'.connected /\ mail'.closed))
        /\ (~log_only /\ (~mail'.connected \/ ~mail'.closed)) => mail'.ret = FALSE
        /\ UNCHANGED <<verification_codes, reset_codes, codes>>]_vars

\* the probe connected, closing failed, and it reported false
C8_Witness ==
    /\ resp.route = "health"
    /\ ~log_only
    /\ mail.connected /\ ~mail.closed
    /\ mail.ret = FALSE

\* C9 (missing field): a Flask request lacking a required field is answered
\* 400 MissingField, changes no store, generates no code and sends no e-mail;
\* the correct code presented to reset-password right after a request that
\* lacked a field, still in time, succeeds.
C9_MissingField ==
    [][/\ (resp'.route \in IssueRoutes \cup VerifyRoutes /\ ~RequiredPresent(resp'))
            => /\ resp'.status = 400 /\ resp'.error = "MissingField"
               /\ UNCHANGED <<verification_codes, reset_codes, hist>>
               /\ mail' = NoMail
       /\ (VerifyStep /\ resp.route = resp'.route /\ resp.email = resp'.email
             /\ resp.error = "MissingField"
             /\ Pending(resp', now') /\ resp'.code = HistOf(resp').code)
            => resp'.status = 200]_vars

\* reset-password got the correct unexpired code without new_password, and
\* the entry is still there
C9_Witness ==
    /\ resp.route = "reset-password"
    /\ resp.error = "MissingField"
    /\ resp.email # None /\ resp.new_password = None
    /\ Pending(resp, now)
    /\ resp.code = HistOf(resp).code
    /\ resp.email \in DOMAIN reset_codes
    /\ reset_codes[resp.email].code = resp.code

\* what C10 states in either form: one delivery attempt, of the stored code;
\* the code is stored with expiry now + TTL whether or not delivery worked; a
\* failed delivery is answered 500 DeliveryFailure
StoreBeforeSend ==
    LET e == resp'.email
        st == StoreAfter(StoreName(resp'.route))
    IN /\ mail'.call = (IF resp'.route = "register" THEN "send_verification_email"
                        ELSE "send_password_reset_email")
       /\ mail'.to = e
       /\ e \in DOMAIN st
       /\ st[e] = [code |-> mail'.code, expires_at |-> now' + TTL]
       /\ (mail'.raised <=> resp'.status = 500)
       /\ (mail'.raised <=> resp'.error = "DeliveryFailure")
       /\ (~mail'.raised <=> resp'.status = 200)

\* C10 as stated (store before send): as StoreBeforeSend, and after a failed
\* delivery the pending code that the request before had delivered is no
\* longer accepted.
C10_StoreBeforeSendEveryCode ==
    [][IssueStep =>
        /\ StoreBeforeSend
        /\ (resp'.status = 500 /\ HistOf(resp').event = "issued"
               /\ resp.status = 200 /\ mail.transmitted /\ mail.to = resp'.email
               /\ mail.code = HistOf(resp').code /\ resp.route = resp'.route)
              => \A t \in Times :
                    Answer(resp', HistOf(resp').code, t,
                           verification_codes', reset_codes').status # 200]_vars

\* C10 as amended: as StoreBeforeSend, and after a failed delivery a code that
\* was pending before, delivered or not, is no longer accepted if it differs
\* from the newly generated one.
C10_StoreBeforeSend ==
    [][IssueStep =>
        /\ StoreBeforeSend
        /\ (resp'.status = 500 /\ HistOf(resp').event = "issued"
               /\ HistOf(resp').code # mail'.code)
              => \A t \in Times :
                    Answer(resp', HistOf(resp').code, t,
                           verification_codes', reset_codes').status # 200]_vars

\* delivery failed and the undelivered code replaced a pending one
C10_Witness ==
    /\ resp.route \in IssueRoutes
    /\ resp.status = 500
    /\ HistOf(resp).event = "issued"
    /\ HistOf(resp).prev # None
    /\ HistOf(resp).prev # HistOf(resp).code
    /\ Store(StoreName(resp.route))[resp.email].code = HistOf(resp).code

====
